---- MODULE Spec2Model ----
(***************************************************************************)
(* Member Data QA Service (src/main.py).                                   *)
(*                                                                         *)
(* Spec        fetch_all_messages: the paginated fetcher, one step per     *)
(*             await point (a GET, a backoff sleep) and per page pass.     *)
(* SpecFormat  format_messages_for_context as a pure function.             *)
(* SpecAnswer  module-level provider initialisation followed by one call   *)
(*             of answer_question_with_llm, one step per provider call.    *)
(***************************************************************************)
EXTENDS Integers, Sequences, FiniteSets, TLC

VARIABLES
    \* ---- fetch_all_messages (src/main.py:77-144) ----
    srcLen,                \* remote: number of messages the source holds
    wellFormed,            \* remote: every response reports total = srcLen
    pc,                    \* position of the coroutine
    all_messages,          \* main.py:82
    skip,                  \* main.py:83
    retry_count,           \* main.py:91
    success,               \* main.py:92
    consecutive_failures,  \* main.py:86
    result,                \* the returned list, once pc = "done"
    \* history of the run, read by the properties only
    failedRequests,        \* GETs that ended in an exception, capped at 1
    badTotals,             \* responses whose total was not an integer
    cfAtPageStart,         \* consecutive_failures when the pass began
    skipAtPageStart,       \* skip when the pass began
    accAtPageStart,        \* all_messages when the pass began
    failedStreak,          \* passes in a row that ended with success = False
    accAtStreakStart,      \* all_messages when that row began
    lastOutcome,           \* how the last request of the pass ended
    getsAtCursor,          \* requests issued with the present value of skip,
                           \* counted up to max_retries + 1
    \* ---- format_messages_for_context (src/main.py:147-166) ----
    fmt_messages,          \* argument messages
    fmt_max_chars,         \* argument max_chars
    fmt_out,               \* the call's return value, once called
    \* ---- module-level provider initialisation (src/main.py:28-53) ----
    GROQ_API_KEY,          \* TRUE when the variable is set and not empty
    ANTHROPIC_API_KEY,
    OPENAI_API_KEY,
    groq_client,           \* TRUE when the client object exists (not None)
    claude_client,
    openai_client,
    llm_provider,
    \* ---- answer_question_with_llm (src/main.py:169-288) ----
    apc,                   \* position in the call
    messages,              \* argument messages
    model_index,           \* position of the for loop over model_names
    last_error,            \* main.py:243
    answer,                \* the returned text, once apc = "returned"
    \* history of the call, read by the properties only
    calls,                 \* the provider calls made, in order
    failures,              \* the providers that failed, with their error
    \* ---- answer_question_simple (src/main.py:291-327) ----
    simple_question,       \* argument question
    simple_messages,       \* argument messages
    simple_out,            \* the call's return value, once called
    \* ---- the request handlers (src/main.py:330-397) ----
    rpc,                   \* position of the handler of the current request
    endpoint,              \* the route of the current request
    question,              \* the question of an /ask request
    response,              \* status and body, once rpc = "responded"
    \* ---- two /ask requests in flight together (src/main.py:365-389) ----
    locals,                \* the local variables of each request's coroutines
    alone                  \* the same request served with no other in flight

fetchVars == <<srcLen, wellFormed, pc, all_messages, skip, retry_count, success,
               consecutive_failures, result, failedRequests, badTotals,
               cfAtPageStart, skipAtPageStart, accAtPageStart, failedStreak,
               accAtStreakStart, lastOutcome, getsAtCursor>>

fmtVars == <<fmt_messages, fmt_max_chars, fmt_out>>

cfgVars == <<GROQ_API_KEY, ANTHROPIC_API_KEY, OPENAI_API_KEY, groq_client,
             claude_client, openai_client, llm_provider>>

ansVars == <<apc, messages, model_index, last_error, answer, calls, failures>>

simpleVars == <<simple_question, simple_messages, simple_out>>

svcVars == <<rpc, endpoint, question, response>>

concVars == <<locals, alone>>

restVars == <<simpleVars, svcVars, concVars>>

vars == <<fetchVars, fmtVars, cfgVars, ansVars, restVars>>

\* ------------------------------------------------------------------ bounds
MaxPages == 2
MaxBadTotals == 2
MaxListLen == 3
MaxBudget == 110

\* --------------------------------------------------------------- constants
limit == 100
max_retries == 3
max_consecutive_failures == 5

\* ------------------------------------------------------------ the remote
Min(a, b) == IF a < b THEN a ELSE b
Max(a, b) == IF a > b THEN a ELSE b

\* Sizes of the remote collection: empty, and for each page count a source
\* whose last page holds one message and one whose last page is full.
SrcLens == {0} \cup {(p - 1) * limit + 1 : p \in 1..MaxPages}
               \cup {p * limit : p \in 1..MaxPages}

\* A message of the source is named by its position, 1..srcLen.
\* GET /messages/?skip=s&limit=l answers with the items at s+1 .. s+l.
PageItems(n, s, l) == [i \in 1..Max(0, Min(l, n - s)) |-> s + i]

IntTotal(n) == [isint |-> TRUE, v |-> n]
NullTotal == [isint |-> FALSE, v |-> 0]

\* What a response may carry as "total": the true count; and from a source
\* that is not well formed also 0 (the key is missing, data.get's default),
\* an overstated count, or null.
ReportedTotals(n, wf) ==
    IF wf THEN {IntTotal(n)}
          ELSE {IntTotal(n), IntTotal(0), IntTotal(n + limit), NullTotal}

\* ------------------------------------------------ fetch_all_messages steps
otherThanFetch == <<fmtVars, cfgVars, ansVars, restVars>>

NotReturned == <<>>

Return(msgs) == /\ pc' = "done"
                /\ result' = msgs

\* main.py:94 the inner while's condition, evaluated after an attempt
InnerLoopContinues(rc, ok) == rc < max_retries /\ ~ok

\* main.py:112
ReachedTotal(n, total) == n >= total

\* the cursor is left where it is
NextSkip_stuck(s) == s

\* main.py:115 and 135
NextSkip(s) == s + limit

\* one more request with the present value of skip; the count is kept up to
\* one above the retry budget
CountGet(n) == Min(n + 1, max_retries + 1)

\* the attempt is not counted
ExceptHTTPError_notCounted(rc, cf) ==
    [retry_count |-> rc,
     consecutive_failures |-> cf,
     sleep |-> TRUE,
     propagate |-> FALSE]

\* every transient error counts as a consecutive failure
ExceptHTTPError_countEach(rc, cf) ==
    [retry_count |-> rc + 1,
     consecutive_failures |-> cf + 1,
     sleep |-> rc + 1 < max_retries,
     propagate |-> FALSE]

\* main.py:117-126 except httpx.HTTPError
ExceptHTTPError(rc, cf) ==
    LET rc2 == rc + 1 IN
    [retry_count |-> rc2,
     consecutive_failures |-> IF rc2 < max_retries THEN cf ELSE cf + 1,
     sleep |-> rc2 < max_retries,
     propagate |-> FALSE]

\* no handler for errors other than httpx.HTTPError
ExceptException_unhandled(rc, cf) ==
    [retry_count |-> rc,
     consecutive_failures |-> cf,
     sleep |-> FALSE,
     propagate |-> TRUE]

\* main.py:128-131 except Exception
ExceptException(rc, cf) ==
    [retry_count |-> max_retries,
     consecutive_failures |-> cf + 1,
     sleep |-> FALSE,
     propagate |-> FALSE]

\* the ceiling compared with > instead of >=
CeilingReached_offByOne(cf) == cf > max_consecutive_failures

\* main.py:138 the ceiling check
CeilingReached(cf) == cf >= max_consecutive_failures

\* main.py:90-92 top of the page loop
StartPage ==
    /\ UNCHANGED otherThanFetch
    /\ pc = "page"
    /\ retry_count' = 0
    /\ success' = FALSE
    /\ pc' = "get"
    /\ cfAtPageStart' = consecutive_failures
    /\ accAtPageStart' = all_messages
    /\ skipAtPageStart' = skip
    /\ lastOutcome' = "none"
    /\ UNCHANGED getsAtCursor
    /\ UNCHANGED <<srcLen, wellFormed, all_messages, skip, consecutive_failures,
                   result, failedRequests, badTotals, failedStreak,
                   accAtStreakStart>>

\* main.py:96-115 the GET answers with items and an integer total
GetItems ==
    /\ UNCHANGED otherThanFetch
    /\ pc = "get"
    /\ PageItems(srcLen, skip, limit) # <<>>
    /\ \E t \in {x \in ReportedTotals(srcLen, wellFormed) : x.isint} :
         LET acc == all_messages \o PageItems(srcLen, skip, limit) IN
         /\ all_messages' = acc
         /\ consecutive_failures' = 0
         /\ success' = TRUE
         /\ IF ReachedTotal(Len(acc), t.v)
               THEN Return(acc) /\ skip' = skip
               ELSE /\ skip' = NextSkip(skip)
                    /\ pc' = "endpage"
                    /\ result' = result
    /\ lastOutcome' = "items"
    /\ getsAtCursor' = IF skip' # skip THEN 0 ELSE CountGet(getsAtCursor)
    /\ UNCHANGED <<srcLen, wellFormed, retry_count, failedRequests, badTotals,
                   cfAtPageStart, skipAtPageStart, accAtPageStart,
                   failedStreak, accAtStreakStart>>

\* main.py:96-112 then 128-131: the items are appended and the comparison
\* of line 112 with a null total raises TypeError inside the try
GetItemsNullTotal ==
    /\ UNCHANGED otherThanFetch
    /\ pc = "get"
    /\ PageItems(srcLen, skip, limit) # <<>>
    /\ NullTotal \in ReportedTotals(srcLen, wellFormed)
    /\ badTotals < MaxBadTotals
    /\ LET h == ExceptException(retry_count, 0) IN
         /\ all_messages' = all_messages \o PageItems(srcLen, skip, limit)
         /\ success' = TRUE
         /\ retry_count' = h.retry_count
         /\ consecutive_failures' = h.consecutive_failures
         /\ pc' = IF h.propagate THEN "raised" ELSE "endpage"
    /\ badTotals' = badTotals + 1
    /\ failedRequests' = 1
    /\ lastOutcome' = "unexpected"
    /\ getsAtCursor' = CountGet(getsAtCursor)
    /\ UNCHANGED <<srcLen, wellFormed, skip, result, cfAtPageStart,
                   skipAtPageStart, accAtPageStart, failedStreak,
                   accAtStreakStart>>

\* A source that is not well formed may also answer a request past its end
\* with a full page (a collection that grows while it is read).
BeyondItems(s, l) == [i \in 1..l |-> s + i]

\* main.py:96-115 the GET past the end answers with items and an integer
\* total
GetItemsBeyond ==
    /\ UNCHANGED otherThanFetch
    /\ pc = "get"
    /\ ~wellFormed
    /\ PageItems(srcLen, skip, limit) = <<>>
    /\ \E t \in {x \in ReportedTotals(srcLen, wellFormed) : x.isint} :
         LET acc == all_messages \o BeyondItems(skip, limit) IN
         /\ all_messages' = acc
         /\ consecutive_failures' = 0
         /\ success' = TRUE
         /\ IF ReachedTotal(Len(acc), t.v)
               THEN Return(acc) /\ skip' = skip
               ELSE /\ skip' = NextSkip(skip)
                    /\ pc' = "endpage"
                    /\ result' = result
    /\ lastOutcome' = "items"
    /\ getsAtCursor' = IF skip' # skip THEN 0 ELSE CountGet(getsAtCursor)
    /\ UNCHANGED <<srcLen, wellFormed, retry_count, failedRequests, badTotals,
                   cfAtPageStart, skipAtPageStart, accAtPageStart,
                   failedStreak, accAtStreakStart>>

\* main.py:96-105 the GET answers with no items: the cursor is past the
\* end of the source, or the source is not well formed
GetEmpty ==
    /\ UNCHANGED otherThanFetch
    /\ pc = "get"
    /\ PageItems(srcLen, skip, limit) = <<>> \/ ~wellFormed
    /\ Return(all_messages)
    /\ lastOutcome' = "empty"
    /\ getsAtCursor' = CountGet(getsAtCursor)
    /\ UNCHANGED <<srcLen, wellFormed, all_messages, skip, retry_count, success,
                   consecutive_failures, failedRequests, badTotals,
                   cfAtPageStart, skipAtPageStart, accAtPageStart,
                   failedStreak, accAtStreakStart>>

\* main.py:96-99 then 117-126: transport error or raise_for_status
GetHTTPError ==
    /\ UNCHANGED otherThanFetch
    /\ pc = "get"
    /\ LET h == ExceptHTTPError(retry_count, consecutive_failures) IN
         /\ retry_count' = h.retry_count
         /\ consecutive_failures' = h.consecutive_failures
         /\ pc' = IF h.propagate THEN "raised"
                  ELSE IF h.sleep THEN "sleep"
                  ELSE IF InnerLoopContinues(h.retry_count, success) THEN "get"
                  ELSE "endpage"
    /\ failedRequests' = 1
    /\ lastOutcome' = "http"
    /\ getsAtCursor' = CountGet(getsAtCursor)
    /\ UNCHANGED <<srcLen, wellFormed, all_messages, skip, success, result,
                   badTotals, cfAtPageStart, skipAtPageStart, accAtPageStart,
                   failedStreak, accAtStreakStart>>

\* main.py:123 the backoff sleep ends; line 94 is evaluated again
Backoff ==
    /\ UNCHANGED otherThanFetch
    /\ pc = "sleep"
    /\ pc' = IF InnerLoopContinues(retry_count, success) THEN "get" ELSE "endpage"
    /\ UNCHANGED <<lastOutcome, getsAtCursor>>
    /\ UNCHANGED <<srcLen, wellFormed, all_messages, skip, retry_count, success,
                   consecutive_failures, result, failedRequests, badTotals,
                   cfAtPageStart, skipAtPageStart, accAtPageStart,
                   failedStreak, accAtStreakStart>>

\* main.py:100-102 then 128-131: the body is no JSON object, or an item is
\* no Message; nothing was appended
GetUnexpected ==
    /\ UNCHANGED otherThanFetch
    /\ pc = "get"
    /\ LET h == ExceptException(retry_count, consecutive_failures) IN
         /\ retry_count' = h.retry_count
         /\ consecutive_failures' = h.consecutive_failures
         /\ pc' = IF h.propagate THEN "raised"
                  ELSE IF InnerLoopContinues(h.retry_count, success) THEN "get"
                  ELSE "endpage"
    /\ failedRequests' = 1
    /\ lastOutcome' = "unexpected"
    /\ getsAtCursor' = CountGet(getsAtCursor)
    /\ UNCHANGED <<srcLen, wellFormed, all_messages, skip, success, result,
                   badTotals, cfAtPageStart, skipAtPageStart, accAtPageStart,
                   failedStreak, accAtStreakStart>>

\* main.py:133-144 after the inner loop
EndPage ==
    /\ UNCHANGED otherThanFetch
    /\ pc = "endpage"
    /\ IF ~success
          THEN /\ skip' = NextSkip(skip)
               /\ failedStreak' = failedStreak + 1
               /\ accAtStreakStart' = accAtStreakStart
               /\ IF CeilingReached(consecutive_failures)
                     THEN Return(all_messages)
                     ELSE pc' = "page" /\ result' = result
          ELSE /\ skip' = skip
               /\ failedStreak' = 0
               /\ accAtStreakStart' = all_messages
               /\ pc' = "page"
               /\ result' = result
    /\ getsAtCursor' = IF skip' # skip THEN 0 ELSE getsAtCursor
    /\ UNCHANGED lastOutcome
    /\ UNCHANGED <<srcLen, wellFormed, all_messages, retry_count, success,
                   consecutive_failures, failedRequests, badTotals,
                   cfAtPageStart, skipAtPageStart, accAtPageStart>>

\* ------------------------------------------ format_messages_for_context
\* main.py:64-69 class Message
Msg(i, uid, name, ts, body) ==
    [id |-> i, user_id |-> uid, user_name |-> name, timestamp |-> ts,
     message |-> body]

\* main.py:156-158 the f-string of one line
FormatLine(msg) ==
    "User: " \o msg.user_name \o " (ID: " \o msg.user_id \o ", Time: "
        \o msg.timestamp \o "): " \o msg.message \o "\n"

\* main.py:166 "".join(context_parts)
RECURSIVE Join(_)
Join(parts) == IF parts = <<>> THEN "" ELSE Head(parts) \o Join(Tail(parts))

\* the line that just fits is refused
ExceedsBudget_atLeast(char_count, n, max_chars) == char_count + n >= max_chars

\* main.py:160
ExceedsBudget(char_count, n, max_chars) == char_count + n > max_chars

\* main.py:154-164 the for loop over messages, from message i on
RECURSIVE FormatLoop(_, _, _, _, _)
FormatLoop(msgs, i, max_chars, context_parts, char_count) ==
    IF i > Len(msgs) THEN context_parts
    ELSE LET formatted == FormatLine(msgs[i]) IN
         IF ExceedsBudget(char_count, Len(formatted), max_chars)
            THEN context_parts
            ELSE FormatLoop(msgs, i + 1, max_chars,
                            Append(context_parts, formatted),
                            char_count + Len(formatted))

\* main.py:147-166
format_messages_for_context(msgs, max_chars) ==
    Join(FormatLoop(msgs, 1, max_chars, <<>>, 0))

\* Messages whose lines are 30, 32 and 40 characters long.
FmtPool ==
    {Msg("m1", "u1", "Al", "t1", ""),
     Msg("m2", "u2", "Bo", "t2", "hi"),
     Msg("m3", "u1", "Al", "t3", "to London.")}

RECURSIVE SeqsUpTo(_, _)
SeqsUpTo(S, n) ==
    IF n = 0 THEN {<<>>}
    ELSE LET shorter == SeqsUpTo(S, n - 1) IN
         shorter \cup {Append(q, x) : q \in shorter, x \in S}

NotCalled == [called |-> FALSE, text |-> ""]

IdleFormat ==
    /\ fmt_messages = <<>>
    /\ fmt_max_chars = 0
    /\ fmt_out = NotCalled

InitFormat ==
    /\ fmt_messages \in SeqsUpTo(FmtPool, MaxListLen)
    /\ fmt_max_chars \in 0..MaxBudget
    /\ fmt_out = NotCalled

\* one call of format_messages_for_context(fmt_messages, fmt_max_chars)
CallFormat ==
    /\ ~fmt_out.called
    /\ fmt_out' = [called |-> TRUE,
                   text |-> format_messages_for_context(fmt_messages,
                                                        fmt_max_chars)]
    /\ UNCHANGED <<fmt_messages, fmt_max_chars, fetchVars, cfgVars, ansVars,
                   restVars>>


\* three separate ifs: a client for every key, the name of the last one
ModuleInit_everyKey(groq_key, anthropic_key, openai_key) ==
    [groq_client |-> groq_key, claude_client |-> anthropic_key,
     openai_client |-> openai_key,
     llm_provider |-> IF openai_key THEN "openai"
                      ELSE IF anthropic_key THEN "claude"
                      ELSE IF groq_key THEN "groq" ELSE "none"]

\* ------------------------------------------------ provider initialisation
\* main.py:33-53 the if/elif chain that builds the clients
ModuleInit(groq_key, anthropic_key, openai_key) ==
    IF groq_key
       THEN [groq_client |-> TRUE, claude_client |-> FALSE,
             openai_client |-> FALSE, llm_provider |-> "groq"]
    ELSE IF anthropic_key
       THEN [groq_client |-> FALSE, claude_client |-> TRUE,
             openai_client |-> FALSE, llm_provider |-> "claude"]
    ELSE IF openai_key
       THEN [groq_client |-> FALSE, claude_client |-> FALSE,
             openai_client |-> TRUE, llm_provider |-> "openai"]
    ELSE [groq_client |-> FALSE, claude_client |-> FALSE,
          openai_client |-> FALSE, llm_provider |-> "none"]

InitConfig ==
    /\ GROQ_API_KEY \in BOOLEAN
    /\ ANTHROPIC_API_KEY \in BOOLEAN
    /\ OPENAI_API_KEY \in BOOLEAN
    /\ LET m == ModuleInit(GROQ_API_KEY, ANTHROPIC_API_KEY, OPENAI_API_KEY) IN
         /\ groq_client = m.groq_client
         /\ claude_client = m.claude_client
         /\ openai_client = m.openai_client
         /\ llm_provider = m.llm_provider

\* ------------------------------------------------ answer_question_with_llm
\* main.py:178 and 211, the two context budgets
groq_max_chars == 20000
fallback_max_chars == 100000

\* main.py:181 and 214
NoDataMessage ==
    "I couldn't find any messages to analyze. The data source may be empty."

\* main.py:288
NoKeyMessage ==
    "Error: No LLM API key configured. Please set ANTHROPIC_API_KEY or "
        \o "OPENAI_API_KEY environment variable."

\* main.py:234-241
model_names ==
    <<"claude-3-5-sonnet-20241022", "claude-3-5-sonnet-20240620",
      "claude-3-5-sonnet", "claude-3-opus-20240229",
      "claude-3-sonnet-20240229", "claude-3-haiku-20240307">>

\* main.py:196 and 274
groq_model == "llama-3.3-70b-versatile"
openai_model == "gpt-3.5-turbo"

\* The characters str.strip() and str.split() treat as white space
Whitespace == {" ", "\t", "\n", "\r"}

\* str.strip(), main.py:204, 262, 282 and 370
RECURSIVE LStrip(_)
LStrip(t) == IF Len(t) > 0 /\ SubSeq(t, 1, 1) \in Whitespace
             THEN LStrip(SubSeq(t, 2, Len(t))) ELSE t
RECURSIVE RStrip(_)
RStrip(t) == IF Len(t) > 0 /\ SubSeq(t, Len(t), Len(t)) \in Whitespace
             THEN RStrip(SubSeq(t, 1, Len(t) - 1)) ELSE t
Strip(t) == RStrip(LStrip(t))

\* str.lower(), main.py:296, 302 and 315
LowerMap ==
    [A |-> "a", B |-> "b", C |-> "c", D |-> "d", E |-> "e", F |-> "f",
     G |-> "g", H |-> "h", I |-> "i", J |-> "j", K |-> "k", L |-> "l",
     M |-> "m", N |-> "n", O |-> "o", P |-> "p", Q |-> "q", R |-> "r",
     S |-> "s", T |-> "t", U |-> "u", V |-> "v", W |-> "w", X |-> "x",
     Y |-> "y", Z |-> "z"]
LowerChar(c) == IF c \in DOMAIN LowerMap THEN LowerMap[c] ELSE c
RECURSIVE Lower(_)
Lower(t) == IF Len(t) = 0 THEN ""
            ELSE LowerChar(SubSeq(t, 1, 1)) \o Lower(SubSeq(t, 2, Len(t)))

\* str.split() without a separator, main.py:310: the maximal runs of
\* characters that are not white space, in order
RECURSIVE SplitLoop(_, _, _)
SplitLoop(t, cur, out) ==
    LET flushed == IF cur = "" THEN out ELSE Append(out, cur) IN
    IF Len(t) = 0 THEN flushed
    ELSE LET c == SubSeq(t, 1, 1)
             rest == SubSeq(t, 2, Len(t))
         IN IF c \in Whitespace THEN SplitLoop(rest, "", flushed)
            ELSE SplitLoop(rest, cur \o c, out)
Split(t) == SplitLoop(t, "", <<>>)

\* sub in t, main.py:302 and 316
Contains(t, sub) ==
    \E i \in 1..(Len(t) - Len(sub) + 1) : SubSeq(t, i, i + Len(sub) - 1) = sub

\* s repeated n times
RECURSIVE Rep(_, _)
Rep(t, n) == IF n = 0 THEN ""
             ELSE IF n % 2 = 0 THEN LET h == Rep(t, n \div 2) IN h \o h
             ELSE t \o Rep(t, n - 1)

\* Message lists handed to the call: none, short ones, and lists whose first
\* line is longer than the smaller or than the larger budget.
ShortMsg == Msg("m1", "u1", "Layla", "2024-01-01T10:00:00",
                "I am flying to London next Friday")
OtherMsg == Msg("m2", "u2", "Vikram Desai", "2024-01-02T09:30:00",
                "Please book the car")
LongMsg == Msg("m3", "u3", "Amira", "2024-01-03T08:00:00",
               Rep("x", groq_max_chars))
HugeMsg == Msg("m4", "u3", "Amira", "2024-01-04T08:00:00",
               Rep("x", fallback_max_chars))

AnswerInputs ==
    {<<>>, <<ShortMsg>>, <<ShortMsg, OtherMsg>>, <<ShortMsg, LongMsg>>,
     <<LongMsg, ShortMsg>>, <<HugeMsg, ShortMsg>>}

\* What a completion call hands back: a text, or an exception with its
\* description str(e).
ProviderTexts == {" Layla flies to London next Friday. ", "42", "  "}
ProviderErrors == {"rate limit exceeded", "model not found"}
\* message.content is an empty list: main.py:265 raises IndexError
EmptyContentError == "list index out of range"
\* the content of the first choice is None: main.py:204 and 282 raise
\* AttributeError
NoneContentError == "'NoneType' object has no attribute 'strip'"

NoError == ""
NoAnswer == ""

Call(provider, model, ok) == [provider |-> provider, model |-> model, ok |-> ok]
Failure(provider, e) == [provider |-> provider, error |-> e]

ReturnAnswer(text) == /\ apc' = "returned"
                      /\ answer' = text

\* the guard is missing
EmptyContext_never(context) == FALSE

\* main.py:180 and 213
EmptyContext(context) == context = ""

\* the exception leaves the function
GroqExcept_unhandled(e) == [propagate |-> TRUE]

\* main.py:206-208 except Exception around the Groq call: print, go on
GroqExcept(e) == [propagate |-> FALSE]

\* the error of the first model name that failed is kept
LastError_first(prev, e) == IF prev = NoError THEN e ELSE prev

\* main.py:255-256, last_error = e
LastError(prev, e) == e

\* main.py:267-268
ClaudeExcept(e) ==
    [propagate |-> FALSE,
     text |-> "Error generating answer with Claude: " \o e]

\* main.py:284-285
OpenAIExcept(e) ==
    [propagate |-> FALSE,
     text |-> "Error generating answer with OpenAI: " \o e]

\* main.py:210-288 from the second context on, up to the first provider call
\* or the return
AfterGroq ==
    LET context == format_messages_for_context(messages, fallback_max_chars) IN
    IF EmptyContext(context)
       THEN ReturnAnswer(NoDataMessage) /\ UNCHANGED <<model_index, last_error>>
    ELSE IF claude_client
       THEN /\ apc' = "claude_call"
            /\ model_index' = 1
            /\ last_error' = NoError
            /\ answer' = answer
    ELSE IF openai_client
       THEN /\ apc' = "openai_call"
            /\ UNCHANGED <<model_index, last_error, answer>>
    ELSE ReturnAnswer(NoKeyMessage) /\ UNCHANGED <<model_index, last_error>>

\* main.py:175-181, or 175 and on to 210
Begin ==
    /\ apc = "start"
    /\ IF groq_client
          THEN /\ LET context ==
                        format_messages_for_context(messages, groq_max_chars) IN
                  IF EmptyContext(context)
                     THEN ReturnAnswer(NoDataMessage)
                     ELSE apc' = "groq_call" /\ answer' = answer
               /\ UNCHANGED <<model_index, last_error>>
          ELSE AfterGroq
    /\ UNCHANGED <<messages, calls, failures, cfgVars, fetchVars, fmtVars,
                   restVars>>

\* main.py:195-205 the Groq call answers with a text
GroqCallOk ==
    /\ apc = "groq_call"
    /\ \E text \in ProviderTexts : ReturnAnswer(Strip(text))
    /\ calls' = Append(calls, Call("groq", groq_model, TRUE))
    /\ UNCHANGED <<messages, model_index, last_error, failures, cfgVars,
                   fetchVars, fmtVars,
                   restVars>>

\* main.py:195-208 the Groq call raises, or its content is None and strip
\* raises; then 210-288
GroqCallFails ==
    /\ apc = "groq_call"
    /\ \E e \in ProviderErrors \cup {NoneContentError} :
         /\ failures' = Append(failures, Failure("groq", e))
         /\ IF GroqExcept(e).propagate
               THEN apc' = "raised" /\ UNCHANGED <<model_index, last_error, answer>>
               ELSE AfterGroq
    /\ calls' = Append(calls, Call("groq", groq_model, FALSE))
    /\ UNCHANGED <<messages, cfgVars, fetchVars, fmtVars,
                   restVars>>

\* main.py:247-254 then 265-266: a model accepts the call
ClaudeCallOk ==
    /\ apc = "claude_call"
    /\ \E text \in ProviderTexts : ReturnAnswer(Strip(text))
    /\ calls' = Append(calls, Call("claude", model_names[model_index], TRUE))
    /\ UNCHANGED <<messages, model_index, last_error, failures, cfgVars,
                   fetchVars, fmtVars,
                   restVars>>

\* main.py:247-263 then 267-268: a model refuses the call; after the last
\* one last_error is raised and caught
ClaudeCallFails ==
    /\ apc = "claude_call"
    /\ \E e \in ProviderErrors :
         LET raised == LastError(last_error, e) IN
         /\ last_error' = raised
         /\ IF model_index < Len(model_names)
               THEN /\ model_index' = model_index + 1
                    /\ UNCHANGED <<apc, answer, failures>>
               ELSE /\ model_index' = model_index
                    /\ failures' = Append(failures, Failure("claude", e))
                    /\ IF ClaudeExcept(raised).propagate
                          THEN apc' = "raised" /\ answer' = answer
                          ELSE ReturnAnswer(ClaudeExcept(raised).text)
    /\ calls' = Append(calls, Call("claude", model_names[model_index], FALSE))
    /\ UNCHANGED <<messages, cfgVars, fetchVars, fmtVars,
                   restVars>>

\* main.py:247-254 then 265 raises on a response without content, 267-268
ClaudeContentUnusable ==
    /\ apc = "claude_call"
    /\ failures' = Append(failures, Failure("claude", EmptyContentError))
    /\ IF ClaudeExcept(EmptyContentError).propagate
          THEN apc' = "raised" /\ answer' = answer
          ELSE ReturnAnswer(ClaudeExcept(EmptyContentError).text)
    /\ calls' = Append(calls, Call("claude", model_names[model_index], FALSE))
    /\ UNCHANGED <<messages, model_index, last_error, cfgVars, fetchVars,
                   fmtVars, restVars>>

\* main.py:273-283
OpenAICallOk ==
    /\ apc = "openai_call"
    /\ \E text \in ProviderTexts : ReturnAnswer(Strip(text))
    /\ calls' = Append(calls, Call("openai", openai_model, TRUE))
    /\ UNCHANGED <<messages, model_index, last_error, failures, cfgVars,
                   fetchVars, fmtVars,
                   restVars>>

\* main.py:273-285 the OpenAI call raises, or its content is None
OpenAICallFails ==
    /\ apc = "openai_call"
    /\ \E e \in ProviderErrors \cup {NoneContentError} :
         /\ failures' = Append(failures, Failure("openai", e))
         /\ IF OpenAIExcept(e).propagate
               THEN apc' = "raised" /\ answer' = answer
               ELSE ReturnAnswer(OpenAIExcept(e).text)
    /\ calls' = Append(calls, Call("openai", openai_model, FALSE))
    /\ UNCHANGED <<messages, model_index, last_error, cfgVars, fetchVars,
                   fmtVars, restVars>>

\* --------------------------------------------------- answer_question_simple
\* main.py:314, the slice relevant_messages[:50]
search_limit == 50

\* main.py:327
NotFoundMessage ==
    "I couldn't find relevant information in the messages to answer this "
        \o "question."

\* main.py:325
TemplateAnswer(top_match) ==
    "Based on the messages, I found that " \o top_match.user_name
        \o " mentioned: '" \o top_match.message
        \o "' (on " \o top_match.timestamp \o ")"

\* every token counts, whatever its length
LongEnough_any(keyword) == TRUE

\* main.py:316, len(keyword) > 3
LongEnough(keyword) == Len(keyword) > 3

\* main.py:316, the sum over the keywords
Matches(keywords, msg_lower) ==
    Cardinality({k \in DOMAIN keywords :
                    Contains(msg_lower, keywords[k]) /\ LongEnough(keywords[k])})

\* main.py:300-303
MentionedUsers(question_lower, msgs) ==
    {msgs[i].user_name : i \in {j \in DOMAIN msgs :
        Contains(question_lower, Lower(msgs[j].user_name))}}

\* the messages are not restricted to the users named in the question
RelevantMessages_all(question_lower, msgs) == msgs

\* main.py:306-308
RelevantMessages(question_lower, msgs) ==
    LET mentioned_users == MentionedUsers(question_lower, msgs)
        ByMentioned(msg) == msg.user_name \in mentioned_users
    IN IF mentioned_users # {} THEN SelectSeq(msgs, ByMentioned) ELSE msgs

\* main.py:314, relevant_messages[:50]
Slice(msgs, n) == SubSeq(msgs, 1, Min(n, Len(msgs)))

\* main.py:311-318: the pairs (matches, msg) of the candidates with a match
RECURSIVE KeywordMatches(_, _, _, _)
KeywordMatches(keywords, candidates, i, keyword_matches) ==
    IF i > Len(candidates) THEN keyword_matches
    ELSE LET msg == candidates[i]
             matches == Matches(keywords, Lower(msg.message))
         IN KeywordMatches(keywords, candidates, i + 1,
                IF matches > 0 THEN Append(keyword_matches, <<matches, msg>>)
                ELSE keyword_matches)

\* a pair goes before the pairs of the same count
RECURSIVE InsertDesc_tiesFirst(_, _)
InsertDesc_tiesFirst(sorted, pair) ==
    IF sorted = <<>> THEN <<pair>>
    ELSE IF Head(sorted)[1] > pair[1]
         THEN <<Head(sorted)>> \o InsertDesc_tiesFirst(Tail(sorted), pair)
         ELSE <<pair>> \o sorted

\* main.py:321, list.sort(reverse=True, key=count) is stable: a pair goes
\* after the pairs of the same or of a higher count
RECURSIVE InsertDesc(_, _)
InsertDesc(sorted, pair) ==
    IF sorted = <<>> THEN <<pair>>
    ELSE IF Head(sorted)[1] >= pair[1]
         THEN <<Head(sorted)>> \o InsertDesc(Tail(sorted), pair)
         ELSE <<pair>> \o sorted

RECURSIVE SortDesc(_, _, _)
SortDesc(pairs, i, sorted) ==
    IF i > Len(pairs) THEN sorted
    ELSE SortDesc(pairs, i + 1, InsertDesc(sorted, pairs[i]))

\* main.py:291-327
answer_question_simple(q, msgs) ==
    LET question_lower == Lower(q)
        relevant_messages == RelevantMessages(question_lower, msgs)
        keywords == Split(question_lower)
        keyword_matches ==
            SortDesc(KeywordMatches(keywords,
                                    Slice(relevant_messages, search_limit),
                                    1, <<>>),
                     1, <<>>)
    IN IF keyword_matches # <<>>
       THEN LET top_match == keyword_matches[1][2] IN TemplateAnswer(top_match)
       ELSE NotFoundMessage

\* The questions and the message lists handed to the call: lists of up to
\* MaxSimpleLen messages of a pool, and lists with one message more or less
\* than the slice of main.py:314 takes.
MaxSimpleLen == 2

MondayMsg == Msg("m5", "u1", "Layla", "2024-01-05T12:00:00",
                 "Flying to London again on Monday")
HansMsg == Msg("m6", "u4", "Hans", "2024-01-06T07:45:00",
               "Monday in LONDON, her car is booked")
FillerMsg(i) == Msg("f" \o ToString(i), "u9", "Omar", "2024-01-01T00:00:00",
                    "Nothing to report")
Fillers(n) == [i \in 1..n |-> FillerMsg(i)]

SimplePool == {ShortMsg, OtherMsg, MondayMsg, HansMsg}

SimpleLists ==
    SeqsUpTo(SimplePool, MaxSimpleLen)
        \cup {Fillers(search_limit - 1) \o <<ShortMsg>>,
              Fillers(search_limit) \o <<ShortMsg>>,
              Fillers(search_limit - 1) \o <<ShortMsg, MondayMsg>>,
              Fillers(search_limit - 2) \o <<ShortMsg, MondayMsg>>,
              Fillers(search_limit) \o <<HansMsg, MondayMsg>>}

SimpleQuestions ==
    {"When is Layla planning her trip to London?",
     "when is layla flying to london",
     "FLYING London Monday",
     "What car does Vikram Desai book?",
     "Is her car booked in london or not",
     "Layla in london",
     "to the car",
     "  ",
     ""}

\* no request is being handled
NoResponse == [status |-> 0, body |-> [none |-> TRUE]]

IdleService ==
    /\ rpc = "idle"
    /\ endpoint = ""
    /\ question = ""
    /\ response = NoResponse

\* no two requests are in flight
IdleConcurrent ==
    /\ locals = <<>>
    /\ alone = <<>>

IdleSimple ==
    /\ simple_question = ""
    /\ simple_messages = <<>>
    /\ simple_out = NotCalled

InitSimple ==
    /\ simple_question \in SimpleQuestions
    /\ simple_messages \in SimpleLists
    /\ simple_out = NotCalled

\* one call of answer_question_simple(simple_question, simple_messages)
CallSimple ==
    /\ simple_out = NotCalled
    /\ simple_out' =
           [called |-> TRUE,
            text |-> answer_question_simple(simple_question, simple_messages)]
    /\ UNCHANGED <<simple_question, simple_messages, svcVars, concVars,
                   fetchVars, fmtVars, cfgVars, ansVars>>

IdleAnswer ==
    /\ InitConfig
    /\ ~GROQ_API_KEY /\ ~ANTHROPIC_API_KEY /\ ~OPENAI_API_KEY
    /\ apc = "idle"
    /\ messages = <<>>
    /\ model_index = 0
    /\ last_error = NoError
    /\ answer = NoAnswer
    /\ calls = <<>>
    /\ failures = <<>>

InitAnswer ==
    /\ InitConfig
    /\ apc = "start"
    /\ messages \in AnswerInputs
    /\ model_index = 0
    /\ last_error = NoError
    /\ answer = NoAnswer
    /\ calls = <<>>
    /\ failures = <<>>


\* main.py:82-89
InitFetch ==
    /\ srcLen \in SrcLens
    /\ wellFormed \in BOOLEAN
    /\ pc = "page"
    /\ all_messages = <<>>
    /\ skip = 0
    /\ retry_count = 0
    /\ success = FALSE
    /\ consecutive_failures = 0
    /\ result = NotReturned
    /\ failedRequests = 0
    /\ badTotals = 0
    /\ cfAtPageStart = 0
    /\ skipAtPageStart = 0
    /\ accAtPageStart = <<>>
    /\ failedStreak = 0
    /\ accAtStreakStart = <<>>
    /\ lastOutcome = "none"
    /\ getsAtCursor = 0

NextFetch ==
    \/ StartPage
    \/ GetItems
    \/ GetItemsNullTotal
    \/ GetEmpty
    \/ GetHTTPError
    \/ Backoff
    \/ GetUnexpected
    \/ EndPage

Init ==
    InitFetch /\ IdleFormat /\ IdleAnswer /\ IdleSimple /\ IdleService
        /\ IdleConcurrent

Next == NextFetch

Spec == Init /\ [][Next]_vars

\* The fetch against sources whose totals are integers, of at most
\* srcLen + limit, that may differ from page to page, and that may serve
\* pages past their end.  Every step of the coroutine is taken in the end:
\* a request ends with a response or with an error (timeout=30, main.py:96),
\* a sleep ends (main.py:123).
NextIntTotals ==
    \/ StartPage
    \/ GetItems
    \/ GetItemsBeyond
    \/ GetEmpty
    \/ GetHTTPError
    \/ Backoff
    \/ GetUnexpected
    \/ EndPage

SpecIntTotals == Init /\ [][NextIntTotals]_vars /\ WF_vars(NextIntTotals)

IdleFetch ==
    /\ InitFetch
    /\ srcLen = 0
    /\ wellFormed

NextFormat == CallFormat

InitFormatOnly ==
    InitFormat /\ IdleFetch /\ IdleAnswer /\ IdleSimple /\ IdleService
        /\ IdleConcurrent

SpecFormat == InitFormatOnly /\ [][NextFormat]_vars

NextAnswer ==
    \/ Begin
    \/ GroqCallOk
    \/ GroqCallFails
    \/ ClaudeCallOk
    \/ ClaudeCallFails
    \/ ClaudeContentUnusable
    \/ OpenAICallOk
    \/ OpenAICallFails

InitAnswerOnly ==
    InitAnswer /\ IdleFetch /\ IdleFormat /\ IdleSimple /\ IdleService
        /\ IdleConcurrent

SpecAnswer == InitAnswerOnly /\ [][NextAnswer]_vars

\* ------------------------------------------------------ the request handlers
\* ------------------------------------------------------ the request handlers
\* main.py:109 Message(**item): the message at a position of the source
SourceMessage(i) ==
    IF i = 1 THEN ShortMsg ELSE IF i = 2 THEN MondayMsg ELSE FillerMsg(i)

Contents(positions) ==
    [k \in DOMAIN positions |-> SourceMessage(positions[k])]

\* Sizes of the remote collection behind the service
MaxServiceLen == 2
ServiceSrcLens == 0..MaxServiceLen

\* The question parameter of the /ask requests
ServiceQuestions == {"", "  \t", "when is layla flying to london"}

\* main.py:371
RequiredMessage == "Question parameter is required"
\* main.py:377
NoMessagesFound == "No messages found in the data source."
\* main.py:388
ProcessingError(e) == "Error processing question: " \o e

\* the question is compared with the empty string only
BlankQuestion_noStrip(q) == q = ""

\* main.py:370, not question or not question.strip()
BlankQuestion(q) == q = "" \/ Strip(q) = ""

\* the language model is called whatever the clients are
UseLLM_always(g, c, o) == TRUE

\* main.py:380, groq_client or claude_client or openai_client
UseLLM(g, c, o) == g \/ c \/ o

Respond(status, body) ==
    /\ rpc' = "responded"
    /\ response' = [status |-> status, body |-> body]

\* main.py:82-89, the locals of fetch_all_messages at position p
FetchLocals(p) ==
    /\ pc' = p
    /\ all_messages' = <<>>
    /\ skip' = 0
    /\ retry_count' = 0
    /\ success' = FALSE
    /\ consecutive_failures' = 0
    /\ result' = NotReturned
    /\ failedRequests' = 0
    /\ badTotals' = 0
    /\ cfAtPageStart' = 0
    /\ skipAtPageStart' = 0
    /\ accAtPageStart' = <<>>
    /\ failedStreak' = 0
    /\ accAtStreakStart' = <<>>
    /\ lastOutcome' = "none"
    /\ getsAtCursor' = 0
    /\ UNCHANGED <<srcLen, wellFormed>>

\* the call fetch_all_messages() of main.py:353 and 375
CallFetch == FetchLocals("page")

\* the locals of answer_question_with_llm at position p
AnswerLocals(p, msgs) ==
    /\ apc' = p
    /\ messages' = msgs
    /\ model_index' = 0
    /\ last_error' = NoError
    /\ answer' = NoAnswer
    /\ calls' = <<>>
    /\ failures' = <<>>

\* the call answer_question_with_llm(question, messages) of main.py:381
CallAnswer(msgs) == AnswerLocals("start", msgs)

\* main.py:330-335
ReceiveRoot ==
    /\ rpc = "idle"
    /\ endpoint' = "GET /"
    /\ Respond(200, [service |-> "Member Data QA Service"])
    /\ UNCHANGED <<question, fetchVars, fmtVars, cfgVars, ansVars, simpleVars, concVars>>

\* main.py:338-346
ReceiveHealth ==
    /\ rpc = "idle"
    /\ endpoint' = "GET /health"
    /\ Respond(200, [status |-> "healthy",
                     llm_provider |-> llm_provider,
                     groq_configured |-> groq_client,
                     claude_configured |-> claude_client,
                     openai_configured |-> openai_client])
    /\ UNCHANGED <<question, fetchVars, fmtVars, cfgVars, ansVars, simpleVars, concVars>>

\* main.py:349-353, up to the await
ReceiveStats ==
    /\ rpc = "idle"
    /\ endpoint' = "GET /stats"
    /\ rpc' = "fetch"
    /\ CallFetch
    /\ UNCHANGED <<question, response, fmtVars, cfgVars, ansVars, simpleVars, concVars>>

\* main.py:365-375 and 392-397, up to the await: POST hands request.question
\* to the handler of GET
ReceiveAsk ==
    /\ rpc = "idle"
    /\ \E method \in {"GET", "POST"}, q \in ServiceQuestions :
         /\ endpoint' = method \o " /ask"
         /\ question' = q
         /\ IF BlankQuestion(q)
               THEN /\ Respond(400, [detail |-> RequiredMessage])
                    /\ UNCHANGED fetchVars
               ELSE /\ rpc' = "fetch"
                    /\ CallFetch
                    /\ UNCHANGED response
    /\ UNCHANGED <<fmtVars, cfgVars, ansVars, simpleVars, concVars>>

\* main.py:354-360, the dictionary users
UserCounts(msgs) ==
    [n \in {msgs[i].user_name : i \in DOMAIN msgs} |->
        Cardinality({i \in DOMAIN msgs : msgs[i].user_name = n})]

\* str(e) of an exception that left a callee
EscapedError == "unexpected error"

\* main.py:353-362 and 375-388, from the return of fetch_all_messages()
AfterFetch ==
    /\ rpc = "fetch"
    /\ pc \in {"done", "raised"}
    /\ IF endpoint = "GET /stats"
          THEN /\ Respond(200,
                    IF pc = "raised" THEN [error |-> EscapedError]
                    ELSE LET users == UserCounts(Contents(result)) IN
                         [total_messages |-> Len(result),
                          unique_users |-> Cardinality(DOMAIN users),
                          users |-> users])
               /\ UNCHANGED ansVars
       ELSE IF pc = "raised"
          THEN /\ Respond(500, [detail |-> ProcessingError(EscapedError)])
               /\ UNCHANGED ansVars
       ELSE IF result = <<>>
          THEN /\ Respond(200, [answer |-> NoMessagesFound])
               /\ UNCHANGED ansVars
       ELSE IF UseLLM(groq_client, claude_client, openai_client)
          THEN /\ rpc' = "answer"
               /\ CallAnswer(Contents(result))
               /\ UNCHANGED response
       ELSE /\ Respond(200, [answer |->
                       answer_question_simple(question, Contents(result))])
            /\ UNCHANGED ansVars
    /\ UNCHANGED <<endpoint, question, fetchVars, fmtVars, cfgVars, simpleVars, concVars>>

\* main.py:381-388, from the return of answer_question_with_llm()
AfterAnswer ==
    /\ rpc = "answer"
    /\ apc \in {"returned", "raised"}
    /\ IF apc = "raised"
          THEN Respond(500, [detail |-> ProcessingError(EscapedError)])
          ELSE Respond(200, [answer |-> answer])
    /\ UNCHANGED <<endpoint, question, fetchVars, fmtVars, cfgVars, ansVars,
                   simpleVars, concVars>>

\* the response is sent; the locals of the handler and of its callees are gone
NextRequest ==
    /\ rpc = "responded"
    /\ rpc' = "idle"
    /\ endpoint' = ""
    /\ question' = ""
    /\ response' = NoResponse
    /\ FetchLocals("idle")
    /\ AnswerLocals("idle", <<>>)
    /\ UNCHANGED <<fmtVars, cfgVars, simpleVars, concVars>>

InitService ==
    /\ IdleService
    /\ srcLen \in ServiceSrcLens
    /\ wellFormed \in BOOLEAN
    /\ pc = "idle"
    /\ all_messages = <<>>
    /\ skip = 0
    /\ retry_count = 0
    /\ success = FALSE
    /\ consecutive_failures = 0
    /\ result = NotReturned
    /\ failedRequests = 0
    /\ badTotals = 0
    /\ cfAtPageStart = 0
    /\ skipAtPageStart = 0
    /\ accAtPageStart = <<>>
    /\ failedStreak = 0
    /\ accAtStreakStart = <<>>
    /\ lastOutcome = "none"
    /\ getsAtCursor = 0
    /\ InitConfig
    /\ apc = "idle"
    /\ messages = <<>>
    /\ model_index = 0
    /\ last_error = NoError
    /\ answer = NoAnswer
    /\ calls = <<>>
    /\ failures = <<>>
    /\ IdleFormat
    /\ IdleSimple
    /\ IdleConcurrent

NextSimple == CallSimple

InitSimpleOnly ==
    InitSimple /\ IdleFetch /\ IdleFormat /\ IdleAnswer /\ IdleService
        /\ IdleConcurrent

SpecSimple == InitSimpleOnly /\ [][NextSimple]_vars

\* Requests are handled one at a time.  Between the receipt of a request and
\* its response the callee that is awaited takes its steps.
NextService ==
    \/ ReceiveRoot
    \/ ReceiveHealth
    \/ ReceiveStats
    \/ ReceiveAsk
    \/ NextFetch
    \/ AfterFetch
    \/ NextAnswer
    \/ AfterAnswer
    \/ NextRequest

SpecService == InitService /\ [][NextService]_vars

\* --------------------------------------- two /ask requests in flight together
\* The event loop runs the coroutines of the requests in flight in turn; a
\* coroutine gives way at each await.  The steps below are those of
\* fetch_all_messages and of the handler, taken on the local variables of
\* one request, given as a record.
Requests == 1..2

\* failed page requests and failed provider calls of one request
MaxErrors == 1

\* Sizes of the remote collection read by both requests
ConcSrcLens == {0, limit + 1}

\* every invocation stores its variables in the same place
Frame_module(r) == 1

\* main.py:82-92 all_messages, skip, consecutive_failures, retry_count and
\* success are local variables: each invocation has its own
Frame(r) == r

\* main.py:371-374 the handler was entered and awaits fetch_all_messages(),
\* which has run main.py:82-89
NewRequest ==
    [pc |-> "page", all_messages |-> <<>>, skip |-> 0, retry_count |-> 0,
     success |-> FALSE, consecutive_failures |-> 0, result |-> NotReturned,
     model_index |-> 0, answer |-> "", errors |-> 0]

\* main.py:90-92
StartPageOf(l) ==
    [l EXCEPT !.retry_count = 0, !.success = FALSE, !.pc = "get"]

\* main.py:96-115 items and an integer total
GetItemsOf(l, n, total) ==
    LET acc == l.all_messages \o PageItems(n, l.skip, limit) IN
    IF ReachedTotal(Len(acc), total)
       THEN [l EXCEPT !.all_messages = acc, !.consecutive_failures = 0,
                      !.success = TRUE, !.pc = "done", !.result = acc]
       ELSE [l EXCEPT !.all_messages = acc, !.consecutive_failures = 0,
                      !.success = TRUE, !.skip = NextSkip(l.skip),
                      !.pc = "endpage"]

\* main.py:96-112 then 128-131 items and a null total
GetItemsNullTotalOf(l, n) ==
    LET h == ExceptException(l.retry_count, 0) IN
    [l EXCEPT !.all_messages = l.all_messages \o PageItems(n, l.skip, limit),
              !.success = TRUE,
              !.retry_count = h.retry_count,
              !.consecutive_failures = h.consecutive_failures,
              !.pc = IF h.propagate THEN "raised" ELSE "endpage",
              !.errors = l.errors + 1]

\* main.py:96-105 no items
GetEmptyOf(l) == [l EXCEPT !.pc = "done", !.result = l.all_messages]

\* main.py:96-99 then 117-126
GetHTTPErrorOf(l) ==
    LET h == ExceptHTTPError(l.retry_count, l.consecutive_failures) IN
    [l EXCEPT !.retry_count = h.retry_count,
              !.consecutive_failures = h.consecutive_failures,
              !.pc = IF h.propagate THEN "raised"
                     ELSE IF h.sleep THEN "sleep"
                     ELSE IF InnerLoopContinues(h.retry_count, l.success)
                        THEN "get"
                     ELSE "endpage",
              !.errors = l.errors + 1]

\* main.py:123 then 94
BackoffOf(l) ==
    [l EXCEPT !.pc = IF InnerLoopContinues(l.retry_count, l.success)
                        THEN "get" ELSE "endpage"]

\* main.py:100-102 then 128-131
GetUnexpectedOf(l) ==
    LET h == ExceptException(l.retry_count, l.consecutive_failures) IN
    [l EXCEPT !.retry_count = h.retry_count,
              !.consecutive_failures = h.consecutive_failures,
              !.pc = IF h.propagate THEN "raised"
                     ELSE IF InnerLoopContinues(h.retry_count, l.success)
                        THEN "get"
                     ELSE "endpage",
              !.errors = l.errors + 1]

\* main.py:133-144
EndPageOf(l) ==
    IF ~l.success
       THEN IF CeilingReached(l.consecutive_failures)
               THEN [l EXCEPT !.skip = NextSkip(l.skip), !.pc = "done",
                              !.result = l.all_messages]
               ELSE [l EXCEPT !.skip = NextSkip(l.skip), !.pc = "page"]
       ELSE [l EXCEPT !.pc = "page"]

\* The text of an answer is not carried here, only which return statement
\* produced it.
ProviderText == "<provider text>"
ProviderErrorText == "<provider error text>"
SearchText == "<search text>"

RespondOf(l, text) == [l EXCEPT !.pc = "responded", !.answer = text]

\* main.py:210-288 after Groq was skipped or failed.  The result is not
\* empty and the line of its first message is shorter than either budget,
\* so the context is not empty.
AfterGroqOf(l, c, o) ==
    IF c THEN [l EXCEPT !.pc = "claude_call", !.model_index = 1]
    ELSE IF o THEN [l EXCEPT !.pc = "openai_call"]
    ELSE RespondOf(l, NoKeyMessage)

\* main.py:374-388 from the return of fetch_all_messages(), and 175-181
AfterFetchOf(l, g, c, o) ==
    IF l.pc = "raised" THEN RespondOf(l, ProcessingError(EscapedError))
    ELSE IF l.result = <<>> THEN RespondOf(l, NoMessagesFound)
    ELSE IF UseLLM(g, c, o)
       THEN IF g THEN [l EXCEPT !.pc = "groq_call"] ELSE AfterGroqOf(l, c, o)
    ELSE RespondOf(l, SearchText)

\* main.py:195-205, 247-266, 271-284 the provider answers with a text
ProviderAnswersOf(l) == RespondOf(l, ProviderText)

\* main.py:207-208, 255-263, 267-268, 286-287 the provider call raises
ProviderRaisesOf(l, c, o) ==
    LET m == [l EXCEPT !.errors = l.errors + 1] IN
    IF l.pc = "groq_call" THEN AfterGroqOf(m, c, o)
    ELSE IF l.pc = "claude_call" /\ l.model_index < Len(model_names)
       THEN [m EXCEPT !.model_index = l.model_index + 1]
    ELSE RespondOf(m, ProviderErrorText)

\* the request whose coroutine runs next reads and writes its variables
Locals(r) == locals[Frame(r)]

\* the coroutine of request r takes a step: its variables get the values
\* the step computes from them; the same step is taken by the request
\* served alone
Resume(r, stepped, steppedAlone) ==
    /\ locals' = [locals EXCEPT ![Frame(r)] = stepped]
    /\ alone' = [alone EXCEPT ![r] = steppedAlone]
    /\ UNCHANGED <<fetchVars, fmtVars, cfgVars, ansVars, simpleVars, svcVars>>

ConcStartPage(r) ==
    /\ Locals(r).pc = "page"
    /\ Resume(r, StartPageOf(Locals(r)), StartPageOf(alone[r]))

ConcGetItems(r) ==
    /\ Locals(r).pc = "get"
    /\ PageItems(srcLen, Locals(r).skip, limit) # <<>>
    /\ \E t \in {x \in ReportedTotals(srcLen, wellFormed) : x.isint} :
         Resume(r, GetItemsOf(Locals(r), srcLen, t.v),
                   GetItemsOf(alone[r], srcLen, t.v))

ConcGetItemsNullTotal(r) ==
    /\ Locals(r).pc = "get"
    /\ PageItems(srcLen, Locals(r).skip, limit) # <<>>
    /\ NullTotal \in ReportedTotals(srcLen, wellFormed)
    /\ Locals(r).errors < MaxErrors
    /\ Resume(r, GetItemsNullTotalOf(Locals(r), srcLen),
                 GetItemsNullTotalOf(alone[r], srcLen))

ConcGetEmpty(r) ==
    /\ Locals(r).pc = "get"
    /\ PageItems(srcLen, Locals(r).skip, limit) = <<>> \/ ~wellFormed
    /\ Resume(r, GetEmptyOf(Locals(r)), GetEmptyOf(alone[r]))

ConcGetHTTPError(r) ==
    /\ Locals(r).pc = "get"
    /\ Locals(r).errors < MaxErrors
    /\ Resume(r, GetHTTPErrorOf(Locals(r)), GetHTTPErrorOf(alone[r]))

ConcBackoff(r) ==
    /\ Locals(r).pc = "sleep"
    /\ Resume(r, BackoffOf(Locals(r)), BackoffOf(alone[r]))

ConcGetUnexpected(r) ==
    /\ Locals(r).pc = "get"
    /\ Locals(r).errors < MaxErrors
    /\ Resume(r, GetUnexpectedOf(Locals(r)), GetUnexpectedOf(alone[r]))

ConcEndPage(r) ==
    /\ Locals(r).pc = "endpage"
    /\ Resume(r, EndPageOf(Locals(r)), EndPageOf(alone[r]))

ConcAfterFetch(r) ==
    /\ Locals(r).pc \in {"done", "raised"}
    /\ Resume(r,
              AfterFetchOf(Locals(r), groq_client, claude_client,
                           openai_client),
              AfterFetchOf(alone[r], groq_client, claude_client,
                           openai_client))

ProviderCalls == {"groq_call", "claude_call", "openai_call"}

ConcProviderAnswers(r) ==
    /\ Locals(r).pc \in ProviderCalls
    /\ Resume(r, ProviderAnswersOf(Locals(r)), ProviderAnswersOf(alone[r]))

ConcProviderRaises(r) ==
    /\ Locals(r).pc \in ProviderCalls
    /\ Locals(r).errors < MaxErrors \/ Locals(r).pc = "claude_call"
    /\ Resume(r, ProviderRaisesOf(Locals(r), claude_client, openai_client),
                 ProviderRaisesOf(alone[r], claude_client, openai_client))

\* the response is sent and the next request is received
ConcNextRequest(r) ==
    /\ Locals(r).pc = "responded"
    /\ Resume(r, NewRequest, NewRequest)

InitConcurrent ==
    /\ IdleService
    /\ srcLen \in ConcSrcLens
    /\ wellFormed \in BOOLEAN
    /\ pc = "idle"
    /\ all_messages = <<>>
    /\ skip = 0
    /\ retry_count = 0
    /\ success = FALSE
    /\ consecutive_failures = 0
    /\ result = NotReturned
    /\ failedRequests = 0
    /\ badTotals = 0
    /\ cfAtPageStart = 0
    /\ skipAtPageStart = 0
    /\ accAtPageStart = <<>>
    /\ failedStreak = 0
    /\ accAtStreakStart = <<>>
    /\ lastOutcome = "none"
    /\ getsAtCursor = 0
    /\ InitConfig
    /\ apc = "idle"
    /\ messages = <<>>
    /\ model_index = 0
    /\ last_error = NoError
    /\ answer = NoAnswer
    /\ calls = <<>>
    /\ failures = <<>>
    /\ IdleFormat
    /\ IdleSimple
    /\ locals = [r \in Requests |-> NewRequest]
    /\ alone = [r \in Requests |-> NewRequest]

NextConcurrent ==
    \E r \in Requests :
        \/ ConcStartPage(r)
        \/ ConcGetItems(r)
        \/ ConcGetItemsNullTotal(r)
        \/ ConcGetEmpty(r)
        \/ ConcGetHTTPError(r)
        \/ ConcBackoff(r)
        \/ ConcGetUnexpected(r)
        \/ ConcEndPage(r)
        \/ ConcAfterFetch(r)
        \/ ConcProviderAnswers(r)
        \/ ConcProviderRaises(r)
        \/ ConcNextRequest(r)

SpecConcurrent == InitConcurrent /\ [][NextConcurrent]_vars

\* ------------------------------------------------- properties of the fetch
Range(f) == {f[i] : i \in DOMAIN f}

\* C1: from a well-formed paged source, when no page request fails,
\* fetch_all_messages returns exactly total messages, each message once, in
\* page order.
C1_ReturnsTotalInPageOrder ==
    (pc = "done" /\ wellFormed /\ failedRequests = 0)
        => result = [i \in 1..srcLen |-> i]

C1_Witness ==
    /\ pc = "done" /\ wellFormed /\ failedRequests = 0
    /\ srcLen > limit
    /\ Len(result) = srcLen

\* C2: fetch_all_messages never raises to its caller; whatever the outcomes
\* of its requests were, when it ends it returns the messages accumulated so
\* far.
C2_NeverRaises ==
    /\ pc # "raised"
    /\ pc = "done" => result = all_messages

C2_Witness ==
    /\ pc = "done"
    /\ failedRequests = 1
    /\ badTotals > 0
    /\ failedStreak > 0
    /\ Len(result) > 0

C4_FailedPageAbsentFromResult ==
    /\ (pc = "endpage" /\ ~success) =>
          /\ Range(PageItems(srcLen, skipAtPageStart, limit))
                 \cap Range(all_messages) = {}
          /\ consecutive_failures = cfAtPageStart + 1
    /\ (pc = "endpage" /\ success /\ retry_count < max_retries) =>
          consecutive_failures = 0

\* C5: while a page has failed with a transient HTTP error fewer than 3
\* times the consecutive-failure counter is not incremented for it, and when
\* the next attempt succeeds (its try body ends without an exception) all
\* items of the page are in the result, appended once after what was there.
C5_RetriedPageNotLost ==
    /\ pc \in {"get", "sleep"} => consecutive_failures = cfAtPageStart
    /\ (pc \in {"endpage", "done"} /\ success /\ retry_count < max_retries) =>
          /\ all_messages =
                 accAtPageStart \o PageItems(srcLen, skipAtPageStart, limit)
          /\ consecutive_failures <= cfAtPageStart

C5_Witness ==
    /\ pc = "endpage" /\ success
    /\ retry_count = max_retries - 1
    /\ skipAtPageStart > 0
    /\ Len(all_messages) = skipAtPageStart + limit

\* C17: with integer totals bounded by srcLen + limit that may differ from
\* page to page, under any interleaving of successful, empty and failing
\* page requests, fetch_all_messages eventually returns.
C17_FetchTerminates == <>(pc = "done")

\* the fetch returned after a page past the end of the source, served with
\* an overstated total, and after a failed request
C17_Witness ==
    /\ pc = "done"
    /\ ~wellFormed
    /\ failedRequests = 1
    /\ Len(result) = srcLen + limit
    /\ srcLen > limit

\* C18 as claimed: an unexpected (non-HTTP) error on a page request ends the
\* attempts for that page at once, no further request is issued for that
\* cursor position, the page counts as one consecutive failure, and the
\* cursor advances to the next page.
C18_UnexpectedErrorEndsPage ==
    /\ lastOutcome = "unexpected" => pc \in {"endpage", "page", "done"}
    /\ (lastOutcome = "unexpected" /\ pc = "endpage")
          => /\ consecutive_failures >= 1
             /\ consecutive_failures <= cfAtPageStart + 1
    /\ (lastOutcome = "unexpected" /\ pc \in {"page", "done"})
          => /\ skip = NextSkip(skipAtPageStart)
             /\ getsAtCursor = 0

\* C19 as claimed: on transient errors skip does not change between the
\* attempts for one page, at most 3 requests are issued for any cursor
\* position, and only after the third failed attempt does the cursor advance
\* by limit, with that page counted as failed.
C19_TransientRetriesSameCursor ==
    /\ pc \in {"get", "sleep"} => skip = skipAtPageStart
    /\ getsAtCursor <= max_retries
    /\ (lastOutcome = "http" /\ pc = "endpage")
          => /\ retry_count = max_retries
             /\ ~success
             /\ consecutive_failures = cfAtPageStart + 1
    /\ (lastOutcome = "http" /\ pc \in {"page", "done"})
          => skip = NextSkip(skipAtPageStart)

\* C20 as claimed: in every pass of the page loop that does not return, skip
\* increases by exactly limit before the next page is requested, also when
\* an unexpected error is raised after the items were appended; hence no
\* page's items are appended to the result more than once.
C20_CursorAdvancesEveryPass ==
    /\ (pc = "page" /\ lastOutcome # "none")
          => skip = NextSkip(skipAtPageStart)
    /\ Cardinality(Range(all_messages)) = Len(all_messages)

\* ------------------------------------ properties of the context builder
\* the formatted lines of the first k messages, concatenated
RECURSIVE LinesOfPrefix(_, _)
LinesOfPrefix(msgs, k) ==
    IF k = 0 THEN ""
    ELSE LinesOfPrefix(msgs, k - 1) \o FormatLine(msgs[k])

\* C6: format_messages_for_context(messages, N) is at most N characters
\* long and is the concatenation of the formatted lines of a prefix of
\* messages, the longest prefix that fits: the first line that would exceed
\* the budget and every message after it are left out.
C6_LongestFittingPrefix ==
    fmt_out.called =>
        /\ Len(fmt_out.text) <= fmt_max_chars
        /\ \E k \in 0..Len(fmt_messages) :
              /\ fmt_out.text = LinesOfPrefix(fmt_messages, k)
              /\ \/ k = Len(fmt_messages)
                 \/ Len(fmt_out.text) + Len(FormatLine(fmt_messages[k + 1]))
                        > fmt_max_chars

C6_Witness ==
    /\ fmt_out.called
    /\ Len(fmt_messages) = 3
    /\ fmt_out.text = LinesOfPrefix(fmt_messages, 2)
    /\ Len(fmt_out.text) = fmt_max_chars

\* ------------------------------------- properties of the answer orchestrator
\* the provider priority by credential: Groq > Claude > OpenAI
Priority == <<"groq", "claude", "openai">>
HasKey(p) == CASE p = "groq" -> GROQ_API_KEY
               [] p = "claude" -> ANTHROPIC_API_KEY
               [] p = "openai" -> OPENAI_API_KEY
ConfiguredFrom(k) == {i \in k..Len(Priority) : HasKey(Priority[i])}
SetMin(S) == CHOOSE x \in S : \A y \in S : x <= y
DisplayName(p) == CASE p = "groq" -> "Groq"
                    [] p = "claude" -> "Claude"
                    [] p = "openai" -> "OpenAI"

\* C7: answer_question_with_llm always returns a text and never raises,
\* for every provider configuration and every outcome of the provider calls,
\* after a bounded number of provider calls.
C7_AlwaysReturnsText ==
    /\ apc # "raised"
    /\ apc = "returned" => answer \in STRING
    /\ Len(calls) <= 1 + Len(model_names)

C7_Witness ==
    /\ apc = "returned"
    /\ Len(calls) = Len(model_names)
    /\ \A i \in DOMAIN calls : ~calls[i].ok
    /\ Len(answer) > 0

\* C8 as claimed: when the call of the highest-priority provider fails, the
\* next provider with a configured credential is attempted in the same
\* request, the failed provider is not tried again, and the top provider's
\* error is not in the returned text.
C8_FallsThroughToNextConfigured ==
    LET top == Priority[SetMin(ConfiguredFrom(1))]
        topAt == SetMin(ConfiguredFrom(1))
    IN (/\ apc = "returned"
        /\ failures # <<>>
        /\ failures[1].provider = top
        /\ ConfiguredFrom(topAt + 1) # {})
       => /\ \E i \in DOMAIN calls :
                calls[i].provider = Priority[SetMin(ConfiguredFrom(topAt + 1))]
          /\ Cardinality({i \in DOMAIN failures :
                              failures[i].provider = top}) = 1
          /\ ~Contains(answer, failures[1].error)

\* C9 as claimed: for every non-empty set of configured providers, if every
\* attempted provider call fails on a request with non-empty context, the
\* returned text names the last provider attempted and contains its error
\* description, and no exception escapes.
C9_AllFailedNamesLastProvider ==
    /\ apc # "raised"
    /\ (/\ apc = "returned"
        /\ calls # <<>>
        /\ \A i \in DOMAIN calls : ~calls[i].ok)
       => /\ Contains(answer, DisplayName(calls[Len(calls)].provider))
          /\ Contains(answer, failures[Len(failures)].error)

\* C10: whenever the built context is empty (no messages, or the first
\* message's line alone exceeds the budget of the configuration), the call
\* returns the fixed no-data message and makes no provider call at all.
C10_EmptyContextNoProviderCall ==
    LET budget == IF groq_client THEN groq_max_chars ELSE fallback_max_chars IN
    (/\ apc # "idle"
     /\ \/ messages = <<>>
        \/ Len(FormatLine(messages[1])) > budget)
    => /\ calls = <<>>
       /\ apc \in {"start", "returned"}
       /\ apc = "returned" => answer = NoDataMessage

C10_Witness ==
    /\ apc = "returned"
    /\ groq_client
    /\ messages # <<>>
    /\ Len(FormatLine(messages[1])) > groq_max_chars
    /\ Len(FormatLine(messages[1])) <= fallback_max_chars
    /\ answer = NoDataMessage
    /\ calls = <<>>

\* the calls made to Claude, in order
ClaudeCalls ==
    LET ToClaude(c) == c.provider = "claude" IN SelectSeq(calls, ToClaude)

ClaudeErrorPrefix == "Error generating answer with Claude: "

\* the call returned the text that reports Claude as failed
ClaudeReportedFailed ==
    /\ apc = "returned"
    /\ Len(answer) >= Len(ClaudeErrorPrefix)
    /\ SubSeq(answer, 1, Len(ClaudeErrorPrefix)) = ClaudeErrorPrefix

\* the model names are tried in the order of the list, and no call follows
\* one that was accepted
TriedInListOrder ==
    /\ Len(ClaudeCalls) <= Len(model_names)
    /\ \A i \in DOMAIN ClaudeCalls :
          /\ ClaudeCalls[i].model = model_names[i]
          /\ ClaudeCalls[i].ok => i = Len(ClaudeCalls)
    /\ apc = "claude_call"
          => /\ Len(ClaudeCalls) = model_index - 1
             /\ \A i \in DOMAIN ClaudeCalls : ~ClaudeCalls[i].ok

\* every model name was tried and failed, and the text reports the error of
\* the last one
AllNamesFailedLastReported ==
    /\ Len(ClaudeCalls) = Len(model_names)
    /\ \A i \in DOMAIN ClaudeCalls : ~ClaudeCalls[i].ok
    /\ failures # <<>>
    /\ failures[Len(failures)].error \in ProviderErrors
    /\ answer = ClaudeErrorPrefix \o failures[Len(failures)].error

\* C21 as claimed: the model names of Claude are tried in the fixed list
\* order, no further call is made after the first that succeeds, and only
\* when every name has failed is the provider treated as failed, with the
\* error of the last name tried reported.
C21_OnlyAllNamesFailedFailsClaude ==
    /\ TriedInListOrder
    /\ ClaudeReportedFailed => AllNamesFailedLastReported

\* C21 amended: the model names of Claude are tried in the fixed list order
\* and no further call is made after the first that is accepted; when every
\* name has failed the provider is treated as failed with the error of the
\* last name tried reported; it is also treated as failed, with no further
\* name tried, when the response of the accepted call has no content.
C21_AllNamesFailedOrNoContent ==
    /\ TriedInListOrder
    /\ ClaudeReportedFailed
          => \/ AllNamesFailedLastReported
             \/ /\ answer = ClaudeErrorPrefix \o EmptyContentError
                /\ failures # <<>>
                /\ failures[Len(failures)].error = EmptyContentError
    /\ (apc = "returned" /\ Len(ClaudeCalls) = Len(model_names)
          /\ failures # <<>>
          /\ failures[Len(failures)].error \in ProviderErrors)
          => AllNamesFailedLastReported

\* every model name failed, the last with "model not found", which is
\* reported
C21_Witness ==
    /\ ClaudeReportedFailed
    /\ Len(ClaudeCalls) = Len(model_names)
    /\ last_error = "model not found"
    /\ answer = ClaudeErrorPrefix \o "model not found"

\* ------------------------------------------- properties of the handlers
\* the provider the credentials call for: the first of Priority with a key
ExpectedProvider ==
    IF ConfiguredFrom(1) = {} THEN "none"
    ELSE Priority[SetMin(ConfiguredFrom(1))]

ActiveClients ==
    {p \in {"groq", "claude", "openai"} :
        CASE p = "groq" -> groq_client
          [] p = "claude" -> claude_client
          [] p = "openai" -> openai_client}

\* C11: for every combination of credentials the active provider is the
\* highest-priority one whose credential is present (Groq > Claude > OpenAI
\* > none), at most one provider is active, and this stays so through every
\* sequence of requests, failed provider calls included; /health reports it.
C11_SelectionFixedAtStart ==
    /\ llm_provider = ExpectedProvider
    /\ Cardinality(ActiveClients) <= 1
    /\ ActiveClients = {llm_provider} \ {"none"}
    /\ (rpc = "responded" /\ endpoint = "GET /health")
          => /\ response.body.llm_provider = ExpectedProvider
             /\ response.body.groq_configured = (ExpectedProvider = "groq")
             /\ response.body.claude_configured = (ExpectedProvider = "claude")
             /\ response.body.openai_configured = (ExpectedProvider = "openai")

\* an /ask request was answered after the call of the first of two
\* configured providers failed
C11_Witness ==
    /\ GROQ_API_KEY /\ ANTHROPIC_API_KEY
    /\ rpc = "responded"
    /\ endpoint = "POST /ask"
    /\ failures # <<>>
    /\ llm_provider = "groq"
    /\ ActiveClients = {"groq"}

\* every character of q is white space
AllBlank(q) == \A i \in 1..Len(q) : SubSeq(q, i, i) \in Whitespace

IsAsk == endpoint \in {"GET /ask", "POST /ask"}

NoCredentials == ~GROQ_API_KEY /\ ~ANTHROPIC_API_KEY /\ ~OPENAI_API_KEY

\* C12: with no provider credential configured, every /ask request with a
\* non-blank question and a non-empty fetched message list is answered by
\* answer_question_simple, and no provider call is made.
C12_NoCredentialsLocalFallback ==
    (NoCredentials /\ IsAsk /\ ~AllBlank(question))
        => /\ calls = <<>>
           /\ apc = "idle"
           /\ rpc # "answer"
           /\ (rpc = "responded" /\ result # <<>>)
                 => /\ response.status = 200
                    /\ response.body.answer =
                          answer_question_simple(question, Contents(result))
                    /\ response.body.answer \in
                          {NotFoundMessage}
                              \cup {TemplateAnswer(msg) :
                                        msg \in Range(Contents(result))}

\* without credentials a question was answered from the fetched messages
C12_Witness ==
    /\ NoCredentials
    /\ rpc = "responded"
    /\ endpoint = "GET /ask"
    /\ question = "when is layla flying to london"
    /\ Len(result) = 2
    /\ response.status = 200
    /\ response.body.answer = TemplateAnswer(ShortMsg)
    /\ calls = <<>>

\* C16: a question that is empty or only white space is rejected with a 400
\* response on GET /ask and on POST /ask, before any request to the message
\* source and before any provider call.
C16_BlankQuestionRejected ==
    (IsAsk /\ AllBlank(question))
        => /\ rpc = "responded"
           /\ response.status = 400
           /\ response.body.detail = RequiredMessage
           /\ pc = "idle"
           /\ failedRequests = 0
           /\ all_messages = <<>>
           /\ apc = "idle"
           /\ calls = <<>>

\* a POST with a question of white space only was answered
C16_Witness ==
    /\ endpoint = "POST /ask"
    /\ question = "  \t"
    /\ rpc = "responded"
    /\ response.status = 400

\* ------------------------------------ properties of answer_question_simple
CharAt(t, i) == SubSeq(t, i, i)

\* t and sub compared without regard to case
ContainsCI(t, sub) == Contains(Lower(t), Lower(sub))

\* the places <<i, j>> of the whitespace-delimited tokens of t
TokenSpans(t) ==
    {p \in (1..Len(t)) \X (1..Len(t)) :
        /\ p[1] <= p[2]
        /\ \A k \in p[1]..p[2] : CharAt(t, k) \notin Whitespace
        /\ p[1] = 1 \/ CharAt(t, p[1] - 1) \in Whitespace
        /\ p[2] = Len(t) \/ CharAt(t, p[2] + 1) \in Whitespace}

\* the tokens of q longer than 3 characters that occur in the body of msg,
\* by their places in q
TokenHits(q, msg) ==
    {p \in TokenSpans(q) :
        /\ p[2] - p[1] + 1 > 3
        /\ ContainsCI(msg.message, SubSeq(q, p[1], p[2]))}

\* the positions in msgs of the candidate messages: those of the users named
\* in q, or all when none is named; of these the first 50
CandidateIdx(q, msgs) ==
    LET names == {msgs[i].user_name : i \in {j \in DOMAIN msgs :
                     ContainsCI(q, msgs[j].user_name)}}
        pool == IF names = {} THEN DOMAIN msgs
                ELSE {i \in DOMAIN msgs : msgs[i].user_name \in names}
    IN {i \in pool : Cardinality({j \in pool : j < i}) < 50}

\* C13: answer_question_simple returns the fixed could-not-find message
\* exactly when no whitespace-delimited token of the question longer than 3
\* characters occurs, case-insensitively, in the body of any of the first 50
\* candidate messages; otherwise it returns the template citing a message.
C13_NotFoundIffNoTokenMatches ==
    simple_out.called =>
        LET hit == \E i \in CandidateIdx(simple_question, simple_messages) :
                       TokenHits(simple_question, simple_messages[i]) # {}
        IN /\ (simple_out.text = NotFoundMessage) <=> ~hit
           /\ hit => \E i \in DOMAIN simple_messages :
                         simple_out.text = TemplateAnswer(simple_messages[i])

\* only a token of 3 characters occurs in the message: nothing is found
C13_Witness ==
    /\ simple_out.called
    /\ simple_question = "to the car"
    /\ simple_messages = <<OtherMsg>>
    /\ ContainsCI(OtherMsg.message, "car")
    /\ simple_out.text = NotFoundMessage

\* C14: for the single message of Layla, "I am flying to London next Friday"
\* at 2024-01-01T10:00:00, and the question "When is Layla planning her trip
\* to London?", the local fallback returns a string containing "Layla" and
\* "flying to London next Friday".
C14_LaylaExample ==
    (/\ simple_out.called
     /\ simple_question = "When is Layla planning her trip to London?"
     /\ simple_messages = <<ShortMsg>>)
        => /\ Contains(simple_out.text, "Layla")
           /\ Contains(simple_out.text, "flying to London next Friday")

\* the match count of a message: the tokens of q longer than 3 characters
\* that occur in its body, a token counted once for each of its places in q
MatchCount(q, msg) == Cardinality(TokenHits(q, msg))

SetMax(S) == CHOOSE x \in S : \A y \in S : x >= y

\* C15: when at least one candidate matches, answer_question_simple cites the
\* message with the highest match count among the first 50 candidates; among
\* candidates tied for the highest count it cites the first in input order;
\* a message beyond the first 50 candidates is never cited.
C15_CitesFirstBestOfFirstFifty ==
    simple_out.called =>
        LET q == simple_question
            msgs == simple_messages
            cand == CandidateIdx(q, msgs)
            matching == {i \in cand : MatchCount(q, msgs[i]) > 0}
        IN /\ matching # {} =>
                LET best == SetMax({MatchCount(q, msgs[i]) : i \in matching})
                    first == SetMin({i \in matching :
                                        MatchCount(q, msgs[i]) = best})
                IN simple_out.text = TemplateAnswer(msgs[first])
           /\ \A i \in DOMAIN msgs \ cand :
                 msgs[i] \notin {msgs[j] : j \in cand}
                    => simple_out.text # TemplateAnswer(msgs[i])

\* the 50th message has two matches and is cited, though the 51st has three
C15_Witness ==
    /\ simple_out.called
    /\ simple_question = "FLYING London Monday"
    /\ simple_messages = Fillers(search_limit - 1) \o <<ShortMsg, MondayMsg>>
    /\ MatchCount(simple_question, ShortMsg) = 2
    /\ MatchCount(simple_question, MondayMsg) = 3
    /\ simple_out.text = TemplateAnswer(ShortMsg)

\* the authors of msgs whose name occurs in q, case-insensitively
NamedAuthors(q, msgs) ==
    {msgs[i].user_name : i \in {j \in DOMAIN msgs :
        ContainsCI(q, msgs[j].user_name)}}

\* the first n elements of a set of positions
FirstOf(S, n) == {i \in S : Cardinality({j \in S : j < i}) < n}

\* C22: if the name of at least one message author occurs, case-
\* insensitively, in the question, every message answer_question_simple can
\* cite is by an author whose name occurs in the question, and the limit of
\* 50 candidates is applied after this restriction; if no author name
\* occurs, the candidates are the first 50 messages of the full list.
C22_CandidatesByNamedAuthors ==
    simple_out.called =>
        LET q == simple_question
            msgs == simple_messages
            named == NamedAuthors(q, msgs)
            pool == IF named # {}
                    THEN {i \in DOMAIN msgs : msgs[i].user_name \in named}
                    ELSE DOMAIN msgs
            cand == FirstOf(pool, 50)
        IN /\ named # {} =>
                \A i \in DOMAIN msgs :
                    simple_out.text = TemplateAnswer(msgs[i])
                        => msgs[i].user_name \in named
           /\ simple_out.text # NotFoundMessage
                => \E i \in cand : simple_out.text = TemplateAnswer(msgs[i])
           /\ (\E i \in cand : TokenHits(q, msgs[i]) # {})
                => simple_out.text # NotFoundMessage

\* the question names Layla: her message is cited though it is the 52nd of
\* the list, and the message of Hans before it, which matches too, is not
C22_Witness ==
    /\ simple_out.called
    /\ simple_question = "Layla in london"
    /\ simple_messages = Fillers(search_limit) \o <<HansMsg, MondayMsg>>
    /\ NamedAuthors(simple_question, simple_messages) = {"Layla"}
    /\ TokenHits(simple_question, HansMsg) # {}
    /\ simple_out.text = TemplateAnswer(MondayMsg)


====
